---- MODULE Spec2Model ----
(***************************************************************************)
(* Blocking and multi-pass matching orchestration of beam:                 *)
(*   matching/match.py                     (the __main__ pass loop)        *)
(*   record_linkage_shared/block_functions.py (the two blocking backends)  *)
(*                                                                         *)
(* A record set is a sequence of rows [indv_id, idx, col], col mapping a   *)
(* column name to a value; a value is a non-empty string, the empty string *)
(* or NULL (SQL NULL / pandas NaN).                                        *)
(***************************************************************************)
EXTENDS Integers, Sequences, FiniteSets, TLC

VARIABLES
    config,              \* config.json and the loaded record sets (never written)
    indexed_a,           \* df_a currently has (indv_id, idx) as its index
    indexed_b,           \* df_b currently has (indv_id, idx) as its index
    past_join_cond_str,  \* the exclusion state threaded through the passes
    passes,              \* sorted(config['blocks_by_pass'])
    pass_pos,            \* position of the for loop in passes (1-based)
    tables,              \* existing candidate tables / csv files, those of earlier runs included
    produced,            \* history: every candidate set generated, in order
    opened,              \* history: the candidate sets found at the lookup and streamed
    df_sim_gid,          \* temp_match_gid.csv: ground-truth results with weight
    all_cands,           \* pending batch of [candidates, pass_name] chunks
    shards,              \* temp_match_<i>.csv written by this run, shards[n] the file n - 1
    shard_i,             \* match.py 183: i, the index of the next shard file
    forwarded,           \* history: chunks appended to all_cands, in order
    stream,              \* chunks of the current pass's candidate set not yet read
    in_flight,           \* the batch process_pool.starmap is executing, <<>> if none
    counts,              \* counts: one tally per ground-truth table and scored chunk
    weights,             \* the weight each pass scored so far was given
    pc,                  \* position of __main__
    error                \* the exception that ended the run, "" if none

vars == <<config, indexed_a, indexed_b, past_join_cond_str, passes, pass_pos,
          tables, produced, opened, df_sim_gid, all_cands, shards, shard_i, forwarded, stream,
          in_flight, counts, weights, pc, error>>

(***************************************************************************)
(* Bounds of the model.                                                    *)
(***************************************************************************)
MaxPasses == 2        \* numbered passes of a plan of the exhaustive family
MaxLongPasses == 11   \* numbered passes of a plan of the long family
NumProcesses == 1     \* config parallelization_metrics.num_processes
ChunkSize == 2        \* config parallelization_metrics.chunk_sizes[p]
MaxWeight == 1        \* the weights of numbered passes are told apart as 0..MaxWeight
RecsLink == 1         \* records per side of a link of the exhaustive family
RecsDedup == 2        \* records of a dedup of the exhaustive family

NULL == "<NULL>"
Vals == {NULL, "", "1", "2"}

(***************************************************************************)
(* SQL three-valued logic, as PostgreSQL evaluates the join condition.     *)
(***************************************************************************)
SqlEq(u, v) == IF u = NULL \/ v = NULL THEN "U" ELSE IF u = v THEN "T" ELSE "F"

SqlNe(u, v) == IF u = NULL \/ v = NULL THEN "U" ELSE IF u # v THEN "T" ELSE "F"

SqlIsNotNull(u) == IF u = NULL THEN "F" ELSE "T"

SqlLt(m, n) == IF m < n THEN "T" ELSE "F"

SqlAnd(p, q) ==
    IF p = "F" \/ q = "F" THEN "F" ELSE IF p = "U" \/ q = "U" THEN "U" ELSE "T"

SqlOr(p, q) ==
    IF p = "T" \/ q = "T" THEN "T" ELSE IF p = "U" \/ q = "U" THEN "U" ELSE "F"

SqlNot(p) == IF p = "T" THEN "F" ELSE IF p = "F" THEN "T" ELSE "U"

(***************************************************************************)
(* The relational backend.  A join condition is kept as the list of its    *)
(* conjuncts <<column of a, column of b>>; the exclusion string is kept as *)
(* the list of the join conditions OR-ed into it ('' is the empty list).   *)
(***************************************************************************)
get_pass_join_cond(passblocks_a, passblocks_b) ==
    [i \in 1..Len(passblocks_a) |-> <<passblocks_a[i], passblocks_b[i]>>]

\* the conjunct without its test for the empty string
EvalCond_no_empty_test(c, a, b) ==
    SqlAnd(SqlEq(a.col[c[1]], b.col[c[2]]), SqlIsNotNull(a.col[c[1]]))

\* one conjunct: (a.A = b.B AND a.A != '' AND a.A IS NOT NULL)
EvalCond(c, a, b) ==
    SqlAnd(SqlAnd(SqlEq(a.col[c[1]], b.col[c[2]]), SqlNe(a.col[c[1]], "")),
           SqlIsNotNull(a.col[c[1]]))

RECURSIVE EvalJoinCond(_, _, _)
EvalJoinCond(join_cond, a, b) ==
    IF join_cond = <<>> THEN "T"
    ELSE SqlAnd(EvalCond(Head(join_cond), a, b),
                EvalJoinCond(Tail(join_cond), a, b))

RECURSIVE EvalPast(_, _, _)
EvalPast(past, a, b) ==
    IF past = <<>> THEN "F"
    ELSE SqlOr(EvalJoinCond(Head(past), a, b), EvalPast(Tail(past), a, b))

\* join_cond_fullstr: [cond, past, dedup]
exclude_past_join_cond(join_cond_str, past) ==
    IF past # <<>> THEN [cond |-> join_cond_str, exclude |-> TRUE, past |-> past]
    ELSE [cond |-> join_cond_str, exclude |-> FALSE, past |-> <<>>]

update_past_join_cond(join_cond_str, past) ==
    IF past # <<>> THEN Append(past, join_cond_str) ELSE <<join_cond_str>>

\* the self-join conjuncts added whether or not the run is a dedup
EvalFull_always_dedup(full, dedup, a, b) ==
    LET base == IF full.exclude
                THEN SqlAnd(EvalJoinCond(full.cond, a, b),
                            SqlNot(EvalPast(full.past, a, b)))
                ELSE EvalJoinCond(full.cond, a, b)
    IN SqlAnd(SqlAnd(base, SqlLt(a.idx, b.idx)), SqlNe(a.indv_id, b.indv_id))

\* join_cond_fullstr evaluated on the rows a and b
EvalFull(full, dedup, a, b) ==
    LET base == IF full.exclude
                THEN SqlAnd(EvalJoinCond(full.cond, a, b),
                            SqlNot(EvalPast(full.past, a, b)))
                ELSE EvalJoinCond(full.cond, a, b)
    IN IF dedup
       THEN SqlAnd(SqlAnd(base, SqlLt(a.idx, b.idx)), SqlNe(a.indv_id, b.indv_id))
       ELSE base

Row(a, b) ==
    [indv_id_a |-> a.indv_id, indv_id_b |-> b.indv_id, idx_a |-> a.idx, idx_b |-> b.idx]

execute_blocking_join(table_a, table_b, full, dedup) ==
    { Row(table_a[i], table_b[j]) :
        <<i, j>> \in { p \in (1..Len(table_a)) \X (1..Len(table_b)) :
                        EvalFull(full, dedup, table_a[p[1]], table_b[p[2]]) = "T" } }

\* returns the candidate table and the updated exclusion list
find_pass_candidates(passblocks_a, passblocks_b, past, table_a, table_b, dedup) ==
    LET join_cond_str == get_pass_join_cond(passblocks_a, passblocks_b)
        full == exclude_past_join_cond(join_cond_str, past)
    IN [rows |-> execute_blocking_join(table_a, table_b, full, dedup),
        past |-> update_past_join_cond(join_cond_str, past)]

(***************************************************************************)
(* The in-memory backend: CustomIndex and find_block.                      *)
(***************************************************************************)
Range(f) == { f[i] : i \in DOMAIN f }

\* pandas ==: a missing value equals nothing, not even another missing value
PdEq(u, v) == u # NULL /\ v # NULL /\ u = v

\* list(set(var for v in seen for var in v))
KeepOf(seen) == UNION { Range(seen[i]) : i \in DOMAIN seen }

\* data_left.columns / data_right.columns besides the blocking keys and index
\* the columns of data_left.merge(data_right): a name kept on both sides gets
\* the suffixes _x and _y, a name kept on one side stays as it is
MergedCols(left_keep, right_keep) ==
    { [name |-> IF c \in right_keep THEN c \o "_x" ELSE c, side |-> "L", c |-> c] :
        c \in left_keep }
    \cup
    { [name |-> IF c \in left_keep THEN c \o "_y" ELSE c, side |-> "R", c |-> c] :
        c \in right_keep }

\* the two column names the exclusion step compares for one variable pair
SeenNames(left_var, right_var, left_keep, right_keep) ==
    IF left_var \in right_keep \/ right_var \in left_keep
    THEN <<left_var \o "_x", right_var \o "_y">>
    ELSE <<left_var, right_var>>

HasCol(name, left_keep, right_keep) ==
    \E m \in MergedCols(left_keep, right_keep) : m.name = name

\* pairs_df[name] for the merged row of a and b
ColValue(name, a, b, left_keep, right_keep) ==
    LET m == CHOOSE m \in MergedCols(left_keep, right_keep) : m.name = name
    IN IF m.side = "L" THEN a.col[m.c] ELSE b.col[m.c]

\* pairs_df[left_var] or pairs_df[right_var] raises KeyError
LinkIndexKeyError(left_seen, right_seen) ==
    LET left_keep == KeepOf(left_seen)
        right_keep == KeepOf(right_seen)
    IN \E i \in DOMAIN left_seen : \E j \in DOMAIN left_seen[i] :
        LET n == SeenNames(left_seen[i][j], right_seen[i][j], left_keep, right_keep)
        IN ~HasCol(n[1], left_keep, right_keep) \/ ~HasCol(n[2], left_keep, right_keep)

\* statement of the exclusion loop for the i-th previously used tuple pair
SeenStatement(i, a, b, left_seen, right_seen) ==
    LET left_keep == KeepOf(left_seen)
        right_keep == KeepOf(right_seen)
    IN \A j \in DOMAIN left_seen[i] :
        LET n == SeenNames(left_seen[i][j], right_seen[i][j], left_keep, right_keep)
        IN PdEq(ColValue(n[1], a, b, left_keep, right_keep),
                ColValue(n[2], a, b, left_keep, right_keep))

\* data_left.merge(data_right, how="inner", on=blocking_keys) after dropna
MergeOn(a, b, left_on, right_on) ==
    \A k \in DOMAIN left_on :
        /\ a.col[left_on[k]] # NULL
        /\ b.col[right_on[k]] # NULL
        /\ a.col[left_on[k]] = b.col[right_on[k]]

\* CustomIndex._link_index: positions <<i, j>> into df_a and df_b
link_index(df_a, df_b, left_on, right_on, left_seen, right_seen) ==
    { p \in (1..Len(df_a)) \X (1..Len(df_b)) :
        /\ MergeOn(df_a[p[1]], df_b[p[2]], left_on, right_on)
        /\ \A i \in DOMAIN left_seen :
              ~SeenStatement(i, df_a[p[1]], df_b[p[2]], left_seen, right_seen) }

\* BaseIndexAlgorithm._dedup_index of recordlinkage: the lower triangle
dedup_index(df_a, left_on, left_seen) ==
    { p \in link_index(df_a, df_a, left_on, left_on, left_seen, left_seen) :
        p[1] > p[2] }

\* data.query('(v1 != "") and (v2 != "")'): NaN != "" is True
RECURSIVE Query(_, _)
Query(df, blocking_vars) ==
    IF df = <<>> THEN <<>>
    ELSE LET r == Head(df)
         IN IF \A k \in DOMAIN blocking_vars : r.col[blocking_vars[k]] # ""
            THEN <<r>> \o Query(Tail(df), blocking_vars)
            ELSE Query(Tail(df), blocking_vars)

\* find_block: [failed, rows, a, b]; a and b are the updated prev_vars lists
find_block(data_a, data_b, blocking_vars_a, blocking_vars_b, dedup, prev_vars_a, prev_vars_b) ==
    LET qa == Query(data_a, blocking_vars_a)
        qb == Query(data_b, blocking_vars_b)
        failed == IF dedup THEN LinkIndexKeyError(prev_vars_a, prev_vars_a)
                  ELSE LinkIndexKeyError(prev_vars_a, prev_vars_b)
        rows == IF dedup
                THEN { Row(qa[p[1]], qa[p[2]]) :
                         p \in dedup_index(qa, blocking_vars_a, prev_vars_a) }
                ELSE { Row(qa[p[1]], qb[p[2]]) :
                         p \in link_index(qa, qb, blocking_vars_a, blocking_vars_b,
                                          prev_vars_a, prev_vars_b) }
    IN [failed |-> failed,
        rows |-> IF failed THEN {} ELSE rows,
        a |-> Append(prev_vars_a, blocking_vars_a),
        b |-> IF blocking_vars_b # <<>> THEN Append(prev_vars_b, blocking_vars_b)
              ELSE prev_vars_b]

(***************************************************************************)
(* Pass names.  A key of blocks_by_pass is a decimal string, kept as its   *)
(* sequence of digits; sorted() orders strings character by character.     *)
(***************************************************************************)
RECURSIVE ToStr(_)
ToStr(n) == IF n < 10 THEN <<n>> ELSE Append(ToStr(n \div 10), n % 10)

\* int(re.sub(r'\D+', '', pass_name))
RECURSIVE ToInt(_)
ToInt(s) == IF s = <<>> THEN 0 ELSE 10 * ToInt(SubSeq(s, 1, Len(s) - 1)) + s[Len(s)]

\* s < t for Python strings of digits
RECURSIVE StrLess(_, _)
StrLess(s, t) ==
    IF t = <<>> THEN FALSE
    ELSE IF s = <<>> THEN TRUE
    ELSE IF Head(s) # Head(t) THEN Head(s) < Head(t)
    ELSE StrLess(Tail(s), Tail(t))

\* sorted(config['blocks_by_pass'])
RECURSIVE sorted(_)
sorted(keys) ==
    IF keys = {} THEN <<>>
    ELSE LET m == CHOOSE k \in keys : \A o \in keys \ {k} : StrLess(k, o)
         IN <<m>> \o sorted(keys \ {m})

(***************************************************************************)
(* Weights.  Python integers do not overflow; the weight 10 ** e of a      *)
(* ground-truth result is kept as its exponent, [ten_to |-> e].            *)
(***************************************************************************)
\* match.py 128: 10 ** (len(config["blocks_by_pass"]) + 1)
gid_weight(blocks_by_pass) == [ten_to |-> Cardinality(DOMAIN blocks_by_pass) + 1]

\* the values a weight of a numbered pass is drawn from
Weights == { [ten_to |-> e] : e \in 0..MaxWeight }

\* the passes of the chunks of a batch
PassNames(batch) == { batch[n].pass_name : n \in DOMAIN batch }

\* match_functions.calculate_weights(dfs, len(passes)): the module is not part
\* of the source, so the weight of a pass is any value; a pass weighted
\* before keeps the weight it was given
calculate_weights(given, batch) ==
    { w \in [DOMAIN given \cup PassNames(batch) -> Weights] :
        \A p \in DOMAIN given : w[p] = given[p] }

WeightLess(v, w) == v.ten_to < w.ten_to

(***************************************************************************)
(* Helpers of the orchestration.                                           *)
(***************************************************************************)
Str(conds) == [kind |-> "str", conds |-> conds, a |-> <<>>, b |-> <<>>]

Lists(a, b) == [kind |-> "lists", conds |-> <<>>, a |-> a, b |-> b]

GidTable(gid, rows) == [kind |-> "gid", key |-> <<>>, gid |-> gid, rows |-> rows]

PassTable(key, rows) == [kind |-> "p", key |-> key, gid |-> "", rows |-> rows]

Generated(t, a, b) ==
    [kind |-> t.kind, key |-> t.key, gid |-> t.gid, rows |-> t.rows, a |-> a, b |-> b]

\* CREATE TABLE after DROP TABLE IF EXISTS / to_csv over an existing file
Store(tabs, t) ==
    { o \in tabs : ~(o.kind = t.kind /\ o.key = t.key /\ o.gid = t.gid) } \cup {t}

Reverse(s) == [i \in 1..Len(s) |-> s[Len(s) + 1 - i]]

IsInv(v) == v \in {"x_inv", "y_inv"}

\* s.replace('_inv', '')
StripInv(v) == IF v = "x_inv" THEN "x" ELSE IF v = "y_inv" THEN "y" ELSE v

\* [vars[v] for v in blocking_vars if v in vars]
PassBlocks(blocking_vars, fieldmap) ==
    LET present == SelectSeq(blocking_vars, LAMBDA v : v \in DOMAIN fieldmap)
    IN [i \in 1..Len(present) |-> fieldmap[present[i]]]

\* block_functions.py 441: the pass is skipped, return past_join_cond_str
missing_var_return(past) == past

\* block_functions.py 469: "Skipped according to config_match", return ''
empty_tuple_return(past) == Str(<<>>)

\* block_functions.py 437-438
missing_var(blocking_vars, passblocks_a, passblocks_b) ==
    Len(passblocks_a) # Len(blocking_vars) \/ Len(passblocks_b) # Len(blocking_vars)

Dedup == config.matchtype = "dedup"

VarsB == IF Dedup THEN config.vars_a ELSE config.vars_b

\* the orders in which the rows of a candidate set can be streamed. SELECT
\* ... FROM the table has no ORDER BY: the order is the one of the plan the
\* database chooses. read_csv follows the order of the file: the order of the
\* merged pairs for a file of this run, which depends on the library version
\* and on the order the records were loaded in, and any order for a file
\* that was there before the run
fetch_orders(rows) ==
    { s \in [1..Cardinality(rows) -> rows] :
        \A m \in DOMAIN s, n \in DOMAIN s : m # n => s[m] # s[n] }

RECURSIVE Chunks(_, _)
RECURSIVE Chunks_with_empty(_, _)
\* a stream that hands an empty candidate set on as one empty chunk
Chunks_with_empty(rowseq, size) ==
    IF Len(rowseq) <= size THEN <<rowseq>>
    ELSE <<SubSeq(rowseq, 1, size)>>
         \o Chunks_with_empty(SubSeq(rowseq, size + 1, Len(rowseq)), size)

\* fetchmany(size) / read_csv(chunksize=size) until the stream is exhausted
Chunks(rowseq, size) ==
    IF rowseq = <<>> THEN <<>>
    ELSE IF Len(rowseq) <= size THEN <<rowseq>>
    ELSE <<SubSeq(rowseq, 1, size)>> \o Chunks(SubSeq(rowseq, size + 1, Len(rowseq)), size)

RECURSIVE sort_values(_)
\* a shard written in the order the batch was scored
sort_values_skipped(dfs) == dfs

\* dfs.sort_values("weight", ascending=False); the source does not fix the
\* order of results of equal weight, here they keep the order of the batch
sort_values(dfs) ==
    IF dfs = <<>> THEN <<>>
    ELSE LET top == CHOOSE n \in DOMAIN dfs :
                      /\ \A m \in DOMAIN dfs : ~WeightLess(dfs[n].weight, dfs[m].weight)
                      /\ \A m \in 1..(n - 1) : WeightLess(dfs[m].weight, dfs[n].weight)
         IN <<dfs[top]>>
            \o sort_values(SubSeq(dfs, 1, top - 1) \o SubSeq(dfs, top + 1, Len(dfs)))

\* starmap(run_match, batch), the weights w of calculate_weights, sort_values:
\* the shard of one batch
Shard(batch, w) ==
    sort_values([n \in 1..Len(batch) |->
        [candidates |-> batch[n].candidates, pass_name |-> batch[n].pass_name,
         weight |-> w[batch[n].pass_name]]])

\* to_csv(f"temp_match_{i}.csv"): the file i is created, or replaced if it
\* exists
to_csv(written, index, shard) ==
    IF index < Len(written) THEN [written EXCEPT ![index + 1] = shard]
    ELSE Append(written, shard)

\* a batch closed one chunk late
threshold_one_late(num_processes) == num_processes * 2 + 1

\* the test that closes a batch: len(all_cands) == num_processes * 2
threshold(num_processes) == num_processes * 2

\* calculate_pass_match_counts(dfs, counts): one tally per scored chunk
Tally(batch) ==
    [i \in 1..Len(batch) |->
        [pass_name |-> batch[i].pass_name, n |-> Len(batch[i].candidates)]]

\* run_ground_truth_ids_passes from the i-th identifier on
RECURSIVE run_ground_truth_ids_passes(_, _)
run_ground_truth_ids_passes(i, st) ==
    IF i > Len(config.ground_truth_ids) THEN st
    ELSE LET gid == config.ground_truth_ids[i]
             gid_a == config.vars_a[gid]
             gid_b == VarsB[gid]
             r == find_pass_candidates(<<gid_a>>, <<gid_b>>, st.past,
                                       config.df_a,
                                       IF Dedup THEN config.df_a ELSE config.df_b,
                                       Dedup)
             t == GidTable(gid, r.rows)
         IN run_ground_truth_ids_passes(i + 1,
                [past |-> r.past,
                 tables |-> Store(st.tables, t),
                 produced |-> Append(st.produced, Generated(t, <<gid_a>>, <<gid_b>>))])

(***************************************************************************)
(* The configurations and record sets a run starts from.                   *)
(***************************************************************************)
FieldMaps ==
    { [a |-> [x |-> "x", y |-> "y"], b |-> [x |-> "x", y |-> "y"]],
      [a |-> [x |-> "xa", y |-> "ya"], b |-> [x |-> "xb", y |-> "yb"]],
      [a |-> [x |-> "x"], b |-> [x |-> "x", y |-> "y"]],
      [a |-> [x |-> "x", y |-> "y"], b |-> [x |-> "x"]],
      [a |-> [x |-> "p", y |-> "q"], b |-> [x |-> "q", y |-> "r"]] }

\* dedup reads side A's map only (vars_b = vars_a)
DedupMaps == { [x |-> "x", y |-> "y"], [x |-> "x"] }

TupleChoices == { <<>>, <<"x">>, <<"y">>, <<"x", "y">>, <<"x_inv", "y_inv">> }

GidChoices == { <<>>, <<"x">>, <<"x", "y">> }

Frames(n, ids, cols) ==
    { [i \in 1..n |-> [indv_id |-> id[i], idx |-> i - 1, col |-> c[i]]] :
        id \in [1..n -> ids], c \in [1..n -> [cols -> Vals]] }

Keys(k) == { ToStr(n) : n \in 1..k }

Plans(k, tuples) == [Keys(k) -> tuples]

Config(matchtype, conn, fm, gids, blocks, df_a, df_b) ==
    [matchtype |-> matchtype, conn |-> conn, vars_a |-> fm.a, vars_b |-> fm.b,
     ground_truth_ids |-> gids, blocks_by_pass |-> blocks,
     chunk_sizes |-> [k \in DOMAIN blocks |-> ChunkSize],
     num_processes |-> NumProcesses,
     df_a |-> df_a, df_b |-> df_b]

\* the state at the start of __main__ in a schema or directory that holds the
\* candidate tables or files in existing
StartOn(c, existing) ==
    /\ config = c
    /\ indexed_a = FALSE
    /\ indexed_b = FALSE
    /\ past_join_cond_str = IF c.conn THEN Str(<<>>) ELSE Lists(<<>>, <<>>)
    /\ passes = <<>>
    /\ pass_pos = 1
    /\ tables = existing
    /\ produced = <<>>
    /\ opened = {}
    /\ df_sim_gid = {}
    /\ all_cands = <<>>
    /\ shards = <<>>
    /\ shard_i = 0
    /\ forwarded = <<>>
    /\ stream = <<>>
    /\ in_flight = <<>>
    /\ counts = <<>>
    /\ weights = <<>>
    /\ pc = "prematch"
    /\ error = ""

\* a run in an empty schema or directory
Start(c) == StartOn(c, {})

\* the blocking values of a record set, row by row
RECURSIVE Flat(_, _)
Flat(df, fieldmap) ==
    IF df = <<>> THEN <<>>
    ELSE LET r == Head(df)
             present == SelectSeq(<<"x", "y">>, LAMBDA v : v \in DOMAIN fieldmap)
         IN [k \in 1..Len(present) |-> r.col[fieldmap[present[k]]]]
            \o Flat(Tail(df), fieldmap)

\* the two non-empty values are interchangeable: "1" is the one met first
Canonical(values) ==
    \A i \in DOMAIN values : values[i] = "2" => \E j \in 1..(i - 1) : values[j] = "1"

\* every value combination of a few records, every short plan
InitExhaustive ==
    \E conn \in BOOLEAN, gids \in GidChoices, k \in 1..MaxPasses :
      \E blocks \in Plans(k, TupleChoices) :
        \/ \E fm \in FieldMaps :
             \E df_a \in Frames(RecsLink, {"i1"}, Range(fm.a)),
                df_b \in Frames(RecsLink, {"i2"}, Range(fm.b)) :
                /\ Range(gids) \subseteq DOMAIN fm.a \cap DOMAIN fm.b
                /\ Canonical(Flat(df_a, fm.a) \o Flat(df_b, fm.b))
                /\ Start(Config("1:1", conn, fm, gids, blocks, df_a, df_b))
        \/ \E vars_a \in DedupMaps :
             \E df_a \in Frames(RecsDedup, {"i1", "i2"}, Range(vars_a)) :
                /\ df_a[1].indv_id = "i1"
                /\ Range(gids) \subseteq DOMAIN vars_a
                /\ Canonical(Flat(df_a, vars_a))
                /\ Start(Config("dedup", conn, [a |-> vars_a, b |-> vars_a],
                                gids, blocks, df_a, <<>>))

\* the record sets of the end-to-end example of the specification
ExampleA == [i \in 1..5 |-> [indv_id |-> <<"a0", "a1", "a2", "a3", "a4">>[i], idx |-> i - 1,
                             col |-> [ssn |-> <<"1", "1", "2", "3", "4">>[i]]]]

ExampleB == [i \in 1..5 |-> [indv_id |-> <<"b0", "b1", "b2", "b3", "b4">>[i], idx |-> i - 1,
                             col |-> [ssn |-> <<"1", "2", "2", "3", "5">>[i]]]]

ExampleMap == [a |-> [ssn |-> "ssn"], b |-> [ssn |-> "ssn"]]

\* plans of up to MaxLongPasses passes over the example record sets
InitLong ==
    \E conn \in BOOLEAN, matchtype \in {"1:1", "dedup"}, k \in 1..MaxLongPasses,
       size \in 1..ChunkSize :
        Start([Config(matchtype, conn, ExampleMap, <<>>,
                      [key \in Keys(k) |-> <<"ssn">>], ExampleA,
                      IF matchtype = "dedup" THEN <<>> ELSE ExampleB)
                 EXCEPT !.chunk_sizes = [key \in Keys(k) |-> size]])

\* record sets in which every kind of pass has a pair of its own
MixedA == [i \in 1..3 |-> [indv_id |-> <<"i1", "i2", "i3">>[i], idx |-> i - 1,
                           col |-> [x |-> <<"1", "2", "5">>[i],
                                    y |-> <<"7", "8", "6">>[i]]]]

MixedB == [i \in 1..3 |-> [indv_id |-> <<"i4", "i5", "i6">>[i], idx |-> i - 1,
                           col |-> [x |-> <<"1", "3", "6">>[i],
                                    y |-> <<"9", "8", "5">>[i]]]]

MixedMap == [a |-> [x |-> "x", y |-> "y"], b |-> [x |-> "x", y |-> "y"]]

InitMixed ==
    \E conn \in BOOLEAN, gids \in GidChoices, k \in 1..MaxPasses :
      \E blocks \in Plans(k, TupleChoices) :
        \/ Start(Config("1:1", conn, MixedMap, gids, blocks, MixedA, MixedB))
        \/ Start(Config("dedup", conn, MixedMap, gids, blocks, MixedA \o
                        [i \in 1..3 |-> [MixedB[i] EXCEPT !.idx = i + 2]], <<>>))

\* record sets with five pairs equal on y, one on x and one on both, inverted
SortA == [i \in 1..3 |-> [indv_id |-> <<"a0", "a1", "a2">>[i], idx |-> i - 1,
                          col |-> [x |-> <<"1", "2", "5">>[i],
                                   y |-> <<"8", "8", "7">>[i]]]]

SortB == [i \in 1..5 |-> [indv_id |-> <<"b0", "b1", "b2", "b3", "b4">>[i], idx |-> i - 1,
                          col |-> [x |-> <<"1", "3", "6", "4", "7">>[i],
                                   y |-> <<"9", "8", "8", "7", "5">>[i]]]]

\* a plan whose sorted order scores a late pass before earlier ones: the pass
\* MaxLongPasses - 1 blocks on y, pass 2 on x, pass 3 on both, inverted
LongMixedPlan ==
    [key \in Keys(MaxLongPasses) |->
        IF key = ToStr(MaxLongPasses - 1) THEN <<"y">>
        ELSE IF key = ToStr(2) THEN <<"x">>
        ELSE IF key = ToStr(3) THEN <<"x_inv", "y_inv">>
        ELSE <<"x", "y">>]

InitLongMixed ==
    \E conn \in BOOLEAN :
        Start(Config("1:1", conn, MixedMap, <<>>, LongMixedPlan, SortA, SortB))

\* the candidate set an earlier run left behind: pairs of other record sets
StaleRows ==
    { [indv_id_a |-> "o1", indv_id_b |-> "o3", idx_a |-> 0, idx_b |-> 2],
      [indv_id_a |-> "o2", indv_id_b |-> "o1", idx_a |-> 1, idx_b |-> 0],
      [indv_id_a |-> "o8", indv_id_b |-> "o9", idx_a |-> 7, idx_b |-> 8] }

\* field maps with and without the variable y on side A
StaleMaps == { MixedMap, [a |-> [x |-> "x"], b |-> MixedMap.b] }

\* runs in a schema or directory where an earlier run left the candidate set
\* of one pass
InitStale ==
    \E conn \in BOOLEAN, fm \in StaleMaps, gids \in GidChoices, k \in 1..MaxPasses :
      \E blocks \in Plans(k, TupleChoices), key \in Keys(k) :
        /\ Range(gids) \subseteq DOMAIN fm.a \cap DOMAIN fm.b
        /\ StartOn(Config("1:1", conn, fm, gids, blocks, MixedA, MixedB),
                   {PassTable(key, StaleRows)})

\* record sets with three pairs equal on x and three other pairs equal on y
KeyedA == [i \in 1..3 |-> [indv_id |-> <<"a0", "a1", "a2">>[i], idx |-> i - 1,
                           col |-> [x |-> "1", y |-> "7"]]]

KeyedB == [i \in 1..2 |-> [indv_id |-> <<"b0", "b1">>[i], idx |-> i - 1,
                           col |-> [x |-> <<"1", "2">>[i], y |-> <<"9", "7">>[i]]]]

\* sets of pass names of which one is not the decimal form of its number
KeyedNames == { {<<0, 1>>}, {<<0, 1>>, <<1>>}, {<<0, 2>>, <<1>>} }

\* plans whose pass names differ from str(passnum), the chunk sizes given
\* under the pass names or under the pass numbers
InitKeyed ==
    \E conn \in BOOLEAN, names \in KeyedNames :
      \E keys \in { names, { ToStr(ToInt(n)) : n \in names } } :
        \E sizes \in [keys -> 1..ChunkSize] :
            Start([Config("1:1", conn, MixedMap, <<>>,
                          [n \in names |-> IF Head(n) = 0 THEN <<"x">> ELSE <<"y">>],
                          KeyedA, KeyedB)
                     EXCEPT !.chunk_sizes = sizes])

Init ==
    InitExhaustive \/ InitLong \/ InitMixed \/ InitLongMixed \/ InitStale \/ InitKeyed

(***************************************************************************)
(* __main__ of match.py.                                                   *)
(***************************************************************************)
Fail(e) == pc' = "failed" /\ error' = e

LoopOrEnd(pos, sortedPasses) == IF pos > Len(sortedPasses) THEN "end" ELSE "block"

\* match.py 92-181: the ground-truth pre-match, then passes = sorted(...)
PreMatch ==
    /\ pc = "prematch"
    /\ IF config.ground_truth_ids # <<>> /\ ~config.conn
       THEN \* conn is None: conn.cursor() raises
            /\ Fail("AttributeError")
            /\ UNCHANGED <<past_join_cond_str, passes, tables, produced, df_sim_gid,
                           counts>>
       ELSE LET st == run_ground_truth_ids_passes(1,
                        [past |-> past_join_cond_str.conds, tables |-> tables,
                         produced |-> produced])
                ran == config.ground_truth_ids # <<>>
                srt == sorted(DOMAIN config.blocks_by_pass)
            IN /\ past_join_cond_str' = IF ran THEN Str(st.past) ELSE past_join_cond_str
               /\ tables' = st.tables
               /\ produced' = st.produced
               /\ df_sim_gid' =
                    UNION { { [pair |-> r, pass_name |-> t.gid,
                               weight |-> gid_weight(config.blocks_by_pass)] :
                                r \in t.rows } :
                            t \in { o \in st.tables :
                                      /\ o.kind = "gid"
                                      /\ o.gid \in Range(config.ground_truth_ids) } }
               /\ counts' = [i \in 1..Len(config.ground_truth_ids) |->
                    LET t == CHOOSE t \in st.tables :
                               t.kind = "gid" /\ t.gid = config.ground_truth_ids[i]
                    IN [pass_name |-> t.gid, n |-> Cardinality(t.rows)]]
               /\ passes' = srt
               /\ pc' = LoopOrEnd(1, srt)
               /\ UNCHANGED error
    /\ UNCHANGED <<config, weights, opened, indexed_a, indexed_b, pass_pos, all_cands, shards, shard_i, forwarded,
                   stream, in_flight>>

\* block_functions.run_blocking_pass, called at match.py 187
RunBlockingPass ==
    /\ pc = "block"
    /\ LET pass_name == passes[pass_pos]
           blocking_vars0 == config.blocks_by_pass[pass_name]
           mem == ~config.conn
           ia == mem
           ib == mem /\ ~Dedup
           inverted_blocks == \E k \in DOMAIN blocking_vars0 : IsInv(blocking_vars0[k])
           blocking_vars == IF inverted_blocks
                            THEN [k \in DOMAIN blocking_vars0 |-> StripInv(blocking_vars0[k])]
                            ELSE blocking_vars0
           passblocks_a == PassBlocks(blocking_vars, config.vars_a)
           passblocks_b0 == PassBlocks(blocking_vars, VarsB)
           passblocks_b == IF inverted_blocks THEN Reverse(passblocks_b0) ELSE passblocks_b0
           table_b == IF Dedup THEN config.df_a ELSE config.df_b
       IN IF mem /\ indexed_a
          THEN \* df_a.set_index: indv_id and idx are no columns any more
               /\ Fail("KeyError")
               /\ UNCHANGED <<indexed_a, indexed_b, past_join_cond_str, tables, produced>>
          ELSE IF mem /\ ~Dedup /\ indexed_b
          THEN /\ Fail("KeyError")
               /\ indexed_a' = TRUE
               /\ UNCHANGED <<indexed_b, past_join_cond_str, tables, produced>>
          ELSE IF blocking_vars0 = <<>>
          THEN \* "Skipped according to config_match": return ''
               /\ past_join_cond_str' = empty_tuple_return(past_join_cond_str)
               /\ indexed_a' = ia /\ indexed_b' = ib
               /\ pc' = "lookup"
               /\ UNCHANGED <<tables, produced, error>>
          ELSE IF missing_var(blocking_vars, passblocks_a, passblocks_b0)
          THEN \* a variable is missing: return past_join_cond_str
               /\ past_join_cond_str' = missing_var_return(past_join_cond_str)
               /\ indexed_a' = ia /\ indexed_b' = ib
               /\ pc' = "lookup"
               /\ UNCHANGED <<tables, produced, error>>
          ELSE IF config.conn
          THEN LET r == find_pass_candidates(passblocks_a, passblocks_b,
                                             past_join_cond_str.conds,
                                             config.df_a, table_b, Dedup)
                   t == PassTable(pass_name, r.rows)
               IN /\ past_join_cond_str' = Str(r.past)
                  /\ tables' = Store(tables, t)
                  /\ produced' = Append(produced, Generated(t, passblocks_a, passblocks_b))
                  /\ pc' = "lookup"
                  /\ UNCHANGED <<indexed_a, indexed_b, error>>
          ELSE IF past_join_cond_str.kind # "lists"
          THEN \* run_block: all_pairs[0] of the string ''
               /\ Fail("IndexError")
               /\ indexed_a' = ia /\ indexed_b' = ib
               /\ UNCHANGED <<past_join_cond_str, tables, produced>>
          ELSE LET r == find_block(config.df_a, config.df_b, passblocks_a, passblocks_b,
                                   Dedup, past_join_cond_str.a, past_join_cond_str.b)
                   t == PassTable(pass_name, r.rows)
               IN IF r.failed
                  THEN /\ Fail("KeyError")
                       /\ indexed_a' = ia /\ indexed_b' = ib
                       /\ UNCHANGED <<past_join_cond_str, tables, produced>>
                  ELSE /\ past_join_cond_str' = Lists(r.a, r.b)
                       /\ tables' = Store(tables, t)
                       /\ produced' = Append(produced, Generated(t, passblocks_a, passblocks_b))
                       /\ indexed_a' = FALSE /\ indexed_b' = FALSE
                       /\ pc' = "lookup"
                       /\ UNCHANGED error
    /\ UNCHANGED <<config, weights, opened, passes, pass_pos, df_sim_gid, all_cands, shards, shard_i, forwarded,
                   stream, in_flight, counts>>

\* match.py 196-212, 237-244: look the candidate set up and open its stream
StreamPass ==
    /\ pc = "lookup"
    /\ LET pass_name == passes[pass_pos]
           passnum == ToInt(pass_name)
           found == { t \in tables : t.kind = "p" /\ t.key = pass_name }
       IN IF config.conn /\ found = {}
          THEN \* "No candidate table for pass ..., skipping": continue
               /\ pass_pos' = pass_pos + 1
               /\ pc' = LoopOrEnd(pass_pos + 1, passes)
               /\ UNCHANGED <<stream, opened, error>>
          ELSE IF ToStr(passnum) \notin DOMAIN config.chunk_sizes
          THEN \* chunk_sizes[str(passnum)]: no chunk size under that key
               /\ Fail("KeyError")
               /\ UNCHANGED <<pass_pos, stream, opened>>
          ELSE IF found = {}
          THEN \* pd.read_csv of a file that was never written
               /\ Fail("FileNotFoundError")
               /\ UNCHANGED <<pass_pos, stream, opened>>
          ELSE LET t == CHOOSE t \in found : TRUE
               IN /\ \E rowseq \in fetch_orders(t.rows) :
                        stream' = Chunks(rowseq, config.chunk_sizes[ToStr(passnum)])
                  /\ opened' = opened \cup {[key |-> pass_name, rows |-> t.rows]}
                  /\ pc' = "stream"
                  /\ UNCHANGED <<pass_pos, error>>
    /\ UNCHANGED <<config, weights, indexed_a, indexed_b, past_join_cond_str, passes, tables,
                   produced, df_sim_gid, all_cands, shards, shard_i, forwarded, in_flight,
                   counts>>

\* a submission that returns at once, the coordinator going on with the loop
starmap_async(batch) == [in_flight |-> batch, pc |-> "stream"]

\* the coordinator inside process_pool.starmap: it waits for the batch
starmap(batch) == [in_flight |-> batch, pc |-> "exec"]

\* every chunk tagged with the first pass of the plan
tagged_first_pass(candidates, pass_name) ==
    [candidates |-> candidates, pass_name |-> passes[1]]

\* match.py 218, 246: the entry [candidates, pass_name] of all_cands
tagged(candidates, pass_name) == [candidates |-> candidates, pass_name |-> pass_name]

\* match.py 212-219, 242-247: read one chunk, append it, test the threshold
ReadChunk ==
    /\ pc = "stream"
    /\ stream # <<>>
    /\ LET entry == tagged(Head(stream), passes[pass_pos])
           batch == Append(all_cands, entry)
       IN /\ all_cands' = batch
          /\ forwarded' = Append(forwarded, entry)
          /\ stream' = Tail(stream)
          /\ IF Len(batch) = threshold(config.num_processes)
             THEN /\ in_flight' = starmap(batch).in_flight
                  /\ pc' = starmap(batch).pc
             ELSE UNCHANGED <<in_flight, pc>>
    /\ UNCHANGED <<config, weights, opened, indexed_a, indexed_b, past_join_cond_str, passes, pass_pos,
                   tables, produced, df_sim_gid, shards, shard_i, counts, error>>

\* the chunks scored before the failing one written as a shard of their own
worker_failure_partial(written, tallied, batch) ==
    [shards |-> Append(written, Shard(SubSeq(batch, 1, 1),
                                      [p \in PassNames(batch) |-> [ten_to |-> 0]])),
     counts |-> tallied]

\* what a batch whose scoring raised leaves in the shards and in the counts
worker_failure_commit(written, tallied, batch) == [shards |-> written, counts |-> tallied]

\* match.py 220-231, 248-259: starmap returned; counts, weights, shard, reset
BatchDone ==
    /\ pc = "exec"
    /\ counts' = counts \o Tally(in_flight)
    /\ \E w \in calculate_weights(weights, in_flight) :
         /\ weights' = w
         /\ shards' = to_csv(shards, shard_i, Shard(in_flight, w))
    /\ shard_i' = shard_i + 1
    /\ all_cands' = <<>>
    /\ in_flight' = <<>>
    /\ pc' = "stream"
    /\ UNCHANGED <<config, opened, indexed_a, indexed_b, past_join_cond_str, passes, pass_pos,
                   tables, produced, df_sim_gid, forwarded, stream, error>>

\* match.py 220, 248, 263: run_match raised in a worker, starmap re-raises
BatchFail ==
    /\ pc \in {"exec", "tail"}
    /\ LET c == worker_failure_commit(shards, counts, in_flight)
       IN shards' = c.shards /\ counts' = c.counts
    /\ UNCHANGED shard_i
    /\ Fail("WorkerError")
    /\ UNCHANGED <<config, weights, opened, indexed_a, indexed_b, past_join_cond_str, passes, pass_pos,
                   tables, produced, df_sim_gid, all_cands, forwarded, stream, in_flight>>

\* match.py 233-235 and the end of the for body: the stream is exhausted
EndOfStream ==
    /\ pc = "stream"
    /\ stream = <<>>
    /\ tables' = IF config.conn
                 THEN { t \in tables : ~(t.kind = "p" /\ t.key = passes[pass_pos]) }
                 ELSE tables
    /\ pass_pos' = pass_pos + 1
    /\ pc' = LoopOrEnd(pass_pos + 1, passes)
    /\ UNCHANGED <<config, weights, opened, indexed_a, indexed_b, past_join_cond_str, passes, produced,
                   df_sim_gid, all_cands, shards, shard_i, forwarded, stream, in_flight, counts,
                   error>>

\* the pending chunks left unsubmitted when the loop has ended
trailing_batch_dropped(pending) == <<>>

\* the batch submitted after the loop: if all_cands: starmap(...)
trailing_batch(pending) == pending

\* match.py 261-263: the trailing batch is submitted, if there is one
Finish ==
    /\ pc = "end"
    /\ IF trailing_batch(all_cands) # <<>>
       THEN in_flight' = trailing_batch(all_cands) /\ pc' = "tail"
       ELSE in_flight' = <<>> /\ pc' = "done"
    /\ UNCHANGED <<config, weights, opened, indexed_a, indexed_b, past_join_cond_str, passes, pass_pos,
                   tables, produced, df_sim_gid, all_cands, shards, shard_i, forwarded, stream,
                   counts, error>>

\* match.py 264-271: the trailing batch is scored and written, the run ends
TailDone ==
    /\ pc = "tail"
    /\ counts' = counts \o Tally(in_flight)
    /\ \E w \in calculate_weights(weights, in_flight) :
         /\ weights' = w
         /\ shards' = to_csv(shards, shard_i, Shard(in_flight, w))
    /\ UNCHANGED shard_i
    /\ all_cands' = <<>>
    /\ in_flight' = <<>>
    /\ pc' = "done"
    /\ UNCHANGED <<config, opened, indexed_a, indexed_b, past_join_cond_str, passes, pass_pos,
                   tables, produced, df_sim_gid, forwarded, stream, error>>

Next ==
    \/ PreMatch
    \/ RunBlockingPass
    \/ StreamPass
    \/ ReadChunk
    \/ BatchDone
    \/ BatchFail
    \/ EndOfStream
    \/ Finish
    \/ TailDone

Spec == Init /\ [][Next]_vars

(***************************************************************************)
(* Vocabulary of the properties.                                           *)
(***************************************************************************)
TableB == IF Dedup THEN config.df_a ELSE config.df_b

RecA(r) == config.df_a[r.idx_a + 1]

RecB(r) == TableB[r.idx_b + 1]

Usable(v) == v # "" /\ v # NULL

\* the blocking predicate of a generated pass: equal, non-empty, non-null
\* values on every blocking variable
Satisfies(a, b, gen) ==
    \A k \in DOMAIN gen.a :
        /\ Usable(a.col[gen.a[k]])
        /\ a.col[gen.a[k]] = b.col[gen.b[k]]

\* C1: for passes i before j, no candidate pair of pass j satisfies the
\* blocking predicate of pass i, and the candidate sets are pairwise disjoint
ExclusionCorrect ==
    \A j \in DOMAIN produced : \A i \in 1..(j - 1) : \A r \in produced[j].rows :
        /\ ~Satisfies(RecA(r), RecB(r), produced[i])
        /\ r \notin produced[i].rows

\* the record pairs of the candidate space: every (a, b) of a link, every
\* pair of two records with different identifiers of a dedup
PairSpace ==
    { p \in (1..Len(config.df_a)) \X (1..Len(TableB)) :
        Dedup => (p[1] < p[2] /\ config.df_a[p[1]].indv_id # TableB[p[2]].indv_id) }

\* a dedup pair counts in either orientation
SatisfiesPair(p, gen) ==
    \/ Satisfies(config.df_a[p[1]], TableB[p[2]], gen)
    \/ Dedup /\ Satisfies(config.df_a[p[2]], TableB[p[1]], gen)

Offered(p, gen) ==
    \/ Row(config.df_a[p[1]], TableB[p[2]]) \in gen.rows
    \/ Dedup /\ Row(config.df_a[p[2]], TableB[p[1]]) \in gen.rows

\* C2: a pair that satisfies the predicate of a generated pass and of no
\* earlier pass is among the candidates of that pass
PassesPartition ==
    \A j \in DOMAIN produced : \A p \in PairSpace :
        (SatisfiesPair(p, produced[j])
            /\ \A i \in 1..(j - 1) : ~SatisfiesPair(p, produced[i]))
        => Offered(p, produced[j])

\* the candidate pairs of a table as unordered pairs of records (dedup) or
\* as (a, b) pairs (link)
PairSet(rows) ==
    IF Dedup
    THEN { { <<r.indv_id_a, r.idx_a>>, <<r.indv_id_b, r.idx_b>> } : r \in rows }
    ELSE { << <<r.indv_id_a, r.idx_a>>, <<r.indv_id_b, r.idx_b>> >> : r \in rows }

\* the first j passes of the plan were all generated, none skipped, and no
\* ground-truth pass ran before them: both backends can run this prefix
PlainPrefix(j) ==
    /\ j <= Len(passes)
    /\ \A n \in 1..j : produced[n].kind = "p" /\ produced[n].key = passes[n]

\* what the other backend generates for the j-th pass of a plain prefix
OtherBackendRows(j) ==
    LET prev_a == [n \in 1..(j - 1) |-> produced[n].a]
        prev_b == [n \in 1..(j - 1) |-> produced[n].b]
    IN IF config.conn
       THEN find_block(config.df_a, config.df_b, produced[j].a, produced[j].b,
                       Dedup, prev_a, prev_b).rows
       ELSE find_pass_candidates(produced[j].a, produced[j].b,
                [n \in 1..(j - 1) |-> get_pass_join_cond(prev_a[n], prev_b[n])],
                config.df_a, TableB, Dedup).rows

\* C3: for the same record sets and the same pass plan, the relational and
\* the in-memory backend produce the same set of candidate pairs, pass by pass
BackendsAgree ==
    \A j \in DOMAIN produced :
        PlainPrefix(j) => PairSet(produced[j].rows) = PairSet(OtherBackendRows(j))

\* C4: in dedup mode every candidate pair of every pass has
\* ordinal_a < ordinal_b and identifier_a different from identifier_b
DedupSafe ==
    Dedup => \A j \in DOMAIN produced : \A r \in produced[j].rows :
                r.idx_a < r.idx_b /\ r.indv_id_a # r.indv_id_b

\* C5: a record with an empty or null value in a blocking variable of a pass
\* is in no candidate pair of that pass, on either side
EmptyValueExcluded ==
    \A j \in DOMAIN produced : \A r \in produced[j].rows :
        \A k \in DOMAIN produced[j].a :
            /\ Usable(RecA(r).col[produced[j].a[k]])
            /\ Usable(RecB(r).col[produced[j].b[k]])

\* a pass was generated over two records that share an empty or null value
\* on one of its blocking variables and agree on all of them
EmptyValueWitness ==
    \E j \in DOMAIN produced : \E p \in (1..Len(config.df_a)) \X (1..Len(TableB)) :
        /\ (Dedup => p[1] # p[2])
        /\ \A k \in DOMAIN produced[j].a :
              config.df_a[p[1]].col[produced[j].a[k]] = TableB[p[2]].col[produced[j].b[k]]
        /\ \E k \in DOMAIN produced[j].a :
              ~Usable(config.df_a[p[1]].col[produced[j].a[k]])
        /\ Len(produced[j].a) = 2

\* the pass references a variable absent from a field map
MissingVarPass(pass_name) ==
    \E k \in DOMAIN config.blocks_by_pass[pass_name] :
        LET v == StripInv(config.blocks_by_pass[pass_name][k])
        IN v \notin DOMAIN config.vars_a \/ v \notin DOMAIN VarsB

\* C6: a numbered pass that references a variable absent from a field map
\* creates no candidate set and leaves the exclusion state as it received
\* it, and no chunk tagged with such a pass is ever forwarded
SkipSemantics ==
    /\ [](\A n \in DOMAIN forwarded : ~MissingVarPass(forwarded[n].pass_name))
    /\ [][ (pc \in {"block", "lookup"} /\ MissingVarPass(passes[pass_pos]))
            => /\ past_join_cond_str' = past_join_cond_str
               /\ tables' = tables
               /\ produced' = produced
               /\ forwarded' = forwarded
               /\ all_cands' = all_cands
               /\ shards' = shards ]_vars

\* the exclusion state covers the pair of records a and b
Excludes(past, a, b) ==
    IF past.kind = "str" THEN EvalPast(past.conds, a, b) = "T"
    ELSE \E i \in DOMAIN past.a :
            SeenStatement(i, a, b, past.a, IF Dedup THEN past.a ELSE past.b)

\* C7: the exclusion state keeps the representation of its backend and
\* excludes every pair that satisfies the predicate of a pass generated so far
ExclusionNeverRolledBack ==
    /\ past_join_cond_str.kind = IF config.conn THEN "str" ELSE "lists"
    /\ \A j \in DOMAIN produced :
         \A p \in (1..Len(config.df_a)) \X (1..Len(TableB)) :
            Satisfies(config.df_a[p[1]], TableB[p[2]], produced[j])
                => Excludes(past_join_cond_str, config.df_a[p[1]], TableB[p[2]])

\* the n-th pass of the sorted plan has been handed to run_blocking_pass
Processed(n) ==
    n < pass_pos \/ (n = pass_pos /\ pc \in {"lookup", "stream", "exec", "failed"})

\* C8: the numbered passes are processed in strictly ascending order of their
\* numeric index, each once, and after the ground-truth passes
PassesAscending ==
    /\ \A i \in 1..Len(passes), j \in 1..Len(passes) :
         (i < j /\ Processed(j)) => ToInt(passes[i]) < ToInt(passes[j])
    /\ \A i \in DOMAIN produced, j \in DOMAIN produced :
         (i < j /\ produced[j].kind = "gid") => produced[i].kind = "gid"

\* C10: side A ssn = [1,1,2,3,4], side B ssn = [1,2,2,3,5], link mode, no
\* prior exclusion: a pass blocking on ssn yields exactly five pairs
ExampleFivePairs ==
    (/\ config.df_a = ExampleA /\ config.df_b = ExampleB /\ ~Dedup
     /\ produced # <<>>)
    => { <<r.idx_a, r.idx_b>> : r \in produced[1].rows }
         = { <<0, 0>>, <<1, 0>>, <<2, 1>>, <<2, 2>>, <<3, 3>> }

\* the single-pass plan of the example has run to its end in file-based mode
ExampleWitness ==
    /\ config.df_a = ExampleA /\ config.df_b = ExampleB /\ ~Dedup
    /\ ~config.conn
    /\ Len(passes) = 1
    /\ pc = "done"
    /\ Len(forwarded) = 3

\* 2 * W, W the number of worker processes
TwoW == 2 * config.num_processes

\* C11: the pending batch never holds more than 2*W chunks; it is submitted
\* exactly when it reaches 2*W chunks and emptied by the submission; every
\* batch submitted before the end of the loop holds exactly 2*W chunks
BatchThreshold ==
    /\ Len(all_cands) <= TwoW
    /\ Len(all_cands) = TwoW => (in_flight = all_cands /\ pc \in {"exec", "failed"})
    /\ pc = "exec" => Len(in_flight) = TwoW
    /\ in_flight # <<>> => in_flight = all_cands
    /\ \A n \in DOMAIN shards :
         IF n = Len(shards) /\ pc = "done"
         THEN Len(shards[n]) \in 1..TwoW
         ELSE Len(shards[n]) = TwoW

\* a full batch holding chunks of two passes was submitted and written
\* while the loop was still running
BatchAcrossPasses ==
    /\ pc = "stream"
    /\ \E n \in DOMAIN shards :
         /\ Len(shards[n]) = TwoW
         /\ Cardinality({ shards[n][i].pass_name : i \in DOMAIN shards[n] }) = 2

\* the chunks of the shards written so far, in the order they were written
RECURSIVE Scored(_)
Scored(written) ==
    IF written = <<>> THEN <<>>
    ELSE Scored(SubSeq(written, 1, Len(written) - 1)) \o
         [i \in DOMAIN written[Len(written)] |->
            [candidates |-> written[Len(written)][i].candidates,
             pass_name |-> written[Len(written)][i].pass_name]]

\* how often the chunk occurs in the list
Times(chunks, entry) == Cardinality({ n \in DOMAIN chunks : chunks[n] = entry })

\* the two lists hold the same chunks the same number of times
SameChunks(s, t) == \A entry \in Range(s) \cup Range(t) : Times(s, entry) = Times(t, entry)

\* the rows of the chunks read from the candidate set of the pass, in order
RECURSIVE RowsRead(_, _)
RowsRead(chunks, pass_name) ==
    IF chunks = <<>> THEN <<>>
    ELSE (IF Head(chunks).pass_name = pass_name THEN Head(chunks).candidates ELSE <<>>)
         \o RowsRead(Tail(chunks), pass_name)

\* C12: every chunk read is non-empty and is scored in exactly one batch;
\* when the run ends normally the pending batch is empty and every row of
\* every generated candidate set was scored once
NoChunkLost ==
    /\ \A i \in DOMAIN forwarded : forwarded[i].candidates # <<>>
    /\ SameChunks(forwarded, Scored(shards) \o all_cands)
    /\ pc = "done" =>
         /\ all_cands = <<>>
         /\ SameChunks(forwarded, Scored(shards))
         /\ \A o \in opened :
              LET scored == RowsRead(Scored(shards), o.key)
              IN /\ Range(scored) = o.rows
                 /\ Len(scored) = Cardinality(o.rows)

\* the run ended normally, its last pass was skipped, and the last shard
\* is the trailing partial batch
TrailingBatchAfterSkip ==
    /\ pc = "done"
    /\ Len(passes) >= 2
    /\ \A j \in DOMAIN produced : produced[j].key # passes[Len(passes)]
    /\ shards # <<>>
    /\ Len(shards[Len(shards)]) < TwoW

\* C13: after a pass was skipped because a blocking variable is missing from
\* a field map the run does not fail: the step that looks its candidate set
\* up goes on to the next pass or to the end of the loop
ConfigErrorAbsorbed ==
    [][ (pc = "lookup" /\ MissingVarPass(passes[pass_pos]))
        => (pc' \in {"block", "end"} /\ error' = "") ]_vars

\* C14: when scoring a chunk of a submitted batch raises, the run aborts, no
\* shard is written and no count is tallied for the batch, no pass is
\* generated, the earlier shards stay as they are; an aborted run takes no
\* further step
WorkerFailureFatal ==
    [][ /\ pc # "failed"
        /\ (error' = "WorkerError")
            => /\ pc' = "failed"
               /\ shards' = shards
               /\ counts' = counts
               /\ produced' = produced
               /\ tables' = tables
               /\ pass_pos' = pass_pos ]_vars

\* a worker failed in the second batch of a run: a shard was written before,
\* and a pass of the plan was never generated
WorkerFailureWitness ==
    /\ pc = "failed" /\ error = "WorkerError"
    /\ shards # <<>>
    /\ pass_pos < Len(passes)

\* the exclusion state as the list of the predicates of the generated passes
Committed ==
    IF config.conn
    THEN Str([n \in DOMAIN produced |-> get_pass_join_cond(produced[n].a, produced[n].b)])
    ELSE Lists([n \in DOMAIN produced |-> produced[n].a],
               [n \in DOMAIN produced |-> produced[n].b])

\* C15: the exclusion state is updated once per generated pass, by that
\* pass's own predicate, when the candidate set is materialised: at every
\* moment it is the list of the predicates of all passes generated so far
ExclusionCommitOrdering == past_join_cond_str = Committed

\* C16: at most one batch of at most 2*W chunks executes at a time; while it
\* executes no chunk is read, no pass is generated and no batch is submitted,
\* and its shard is written before the next chunk is read
NotPipelined ==
    /\ [](in_flight # <<>> => (pc \in {"exec", "tail", "failed"} /\ Len(in_flight) <= TwoW))
    /\ [][ in_flight # <<>>
            => /\ forwarded' = forwarded
               /\ stream' = stream
               /\ produced' = produced
               /\ pass_pos' = pass_pos
               /\ \/ pc' = "failed" /\ in_flight' = in_flight
                  \/ /\ in_flight' = <<>>
                     /\ shards' = Append(shards, Shard(in_flight, weights')) ]_vars

\* the results of the shard are in descending order of weight
SortedDescending(shard) ==
    \A m \in DOMAIN shard, n \in DOMAIN shard :
        m < n => ~WeightLess(shard[m].weight, shard[n].weight)

\* the chunks of the shard, without their weights
Unweighted(shard) ==
    [n \in DOMAIN shard |->
        [candidates |-> shard[n].candidates, pass_name |-> shard[n].pass_name]]

\* C21: every batch that is scored adds exactly one shard after the shards
\* written before it, which stay as they are; the shard holds the chunks of
\* that batch and no others, in descending order of weight; no other step
\* changes the shards, and the index of the next shard is the number of
\* shards written so far
OneShardPerBatch ==
    /\ [](\A n \in DOMAIN shards : SortedDescending(shards[n]))
    /\ [](pc # "done" => shard_i = Len(shards))
    /\ [][ IF in_flight # <<>> /\ in_flight' = <<>>
           THEN /\ Len(shards') = Len(shards) + 1
                /\ SubSeq(shards', 1, Len(shards)) = shards
                /\ SameChunks(Unweighted(shards'[Len(shards')]), in_flight)
                /\ Len(shards'[Len(shards')]) = Len(in_flight)
           ELSE shards' = shards ]_vars

\* the second full batch held a chunk of the pass MaxLongPasses - 1 followed
\* by a chunk of pass 2, its shard lists the chunk of pass 2 first, and a
\* trailing batch was written as the shard after it
MixedBatchSorted ==
    /\ pc = "done"
    /\ Len(shards) = 3
    /\ Len(forwarded) = 5
    /\ forwarded[3].pass_name = ToStr(MaxLongPasses - 1)
    /\ forwarded[4].pass_name = ToStr(2)
    /\ shards[2][1].pass_name = ToStr(2)
    /\ shards[2][2].pass_name = ToStr(MaxLongPasses - 1)
    /\ WeightLess(shards[2][2].weight, shards[2][1].weight)
    /\ shards[3][1].pass_name = ToStr(3)

\* the pairs data_left.merge(data_right) holds before the exclusion loop
Merged(on_a, on_b) ==
    LET qa == Query(config.df_a, on_a)
        qb == Query(config.df_b, on_b)
    IN IF Dedup
       THEN { <<qa[p[1]], qa[p[2]]>> : p \in link_index(qa, qa, on_a, on_a, <<>>, <<>>) }
       ELSE { <<qa[p[1]], qb[p[2]]>> : p \in link_index(qa, qb, on_a, on_b, <<>>, <<>>) }

\* the pairs index() returns: in dedup mode the lower triangle of the pairs
\* left by the exclusion loop
Returned(pairs) == IF Dedup THEN { m \in pairs : m[1].idx > m[2].idx } ELSE pairs

\* side A's value equals side B's value on every variable of the tuple pair
PriorEqual(a, b, prior_a, prior_b) ==
    \A k \in DOMAIN prior_a : PdEq(a.col[prior_a[k]], b.col[prior_b[k]])

\* C23: in the in-memory backend the exclusion step never fails on a column
\* lookup, and the candidates of a generated pass are the merged pairs for
\* which no previously used tuple pair (prior_a, prior_b) has side A's value
\* of every prior_a variable equal to side B's value of the corresponding
\* prior_b variable
InMemoryExclusionBySide ==
    [][ (pc = "block" /\ ~config.conn)
        => /\ error' # "KeyError"
           /\ produced' # produced =>
                LET gen == produced'[Len(produced')]
                    past == past_join_cond_str
                IN gen.rows =
                     { Row(m[1], m[2]) : m \in
                         Returned({ m \in Merged(gen.a, gen.b) :
                                     \A n \in DOMAIN past.a :
                                       ~PriorEqual(m[1], m[2], past.a[n], past.b[n]) }) } ]_vars

\* C24: in file-based mode, whenever run_blocking_pass has returned (the
\* candidates generated, or the pass skipped for a missing variable or for an
\* empty tuple) the record sets A and B have their identifier and ordinal as
\* columns again, not as index
RecordSetsRestored ==
    (~config.conn /\ pc = "lookup") => (~indexed_a /\ ~indexed_b)

\* C25: in the in-memory backend the exclusion state is a pair of lists of
\* equal length with one entry per generated pass, in generation order, the
\* n-th entries being the side-A and side-B tuples of the n-th generated pass
\* and of equal length; a skipped pass adds no entry and removes none
ExclusionListsShape ==
    ~config.conn =>
        /\ past_join_cond_str.kind = "lists"
        /\ Len(past_join_cond_str.a) = Len(produced)
        /\ Len(past_join_cond_str.b) = Len(produced)
        /\ \A n \in DOMAIN produced :
             /\ past_join_cond_str.a[n] = produced[n].a
             /\ past_join_cond_str.b[n] = produced[n].b
             /\ Len(past_join_cond_str.a[n]) = Len(past_join_cond_str.b[n])

\* the rows of the chunks, chunk after chunk
RECURSIVE Flatten(_)
Flatten(chunks) == IF chunks = <<>> THEN <<>> ELSE Head(chunks) \o Flatten(Tail(chunks))

\* what the stream of the current pass delivers: the rows already forwarded
\* followed by the rows still to be read
Delivered == RowsRead(forwarded, passes[pass_pos]) \o Flatten(stream)

\* match.py 185, 212, 243: chunk_sizes[str(passnum)], the chunk size of the
\* pass, configured under the number in its name
chunk_size(pass_name) == config.chunk_sizes[ToStr(ToInt(pass_name))]

\* every chunk has between 1 and chunk_size(p) rows of the candidate set that
\* was found and opened for the pass p it is tagged with, in the shards as in
\* the pending batch, and no row of a pass is forwarded twice
ChunksWellFormed ==
    /\ \A n \in DOMAIN forwarded :
         LET c == forwarded[n]
         IN /\ ToStr(ToInt(c.pass_name)) \in DOMAIN config.chunk_sizes
            /\ Len(c.candidates) \in 1..chunk_size(c.pass_name)
            /\ \E o \in opened :
                 /\ o.key = c.pass_name
                 /\ Range(c.candidates) \subseteq o.rows
    /\ \A n \in DOMAIN shards : Range(Unweighted(shards[n])) \subseteq Range(forwarded)
    /\ Range(all_cands) \subseteq Range(forwarded)
    /\ \A o \in opened :
         LET read == RowsRead(forwarded, o.key)
         IN /\ Range(read) \subseteq o.rows
            /\ Len(read) = Cardinality(Range(read))

\* C22: every chunk forwarded holds between 1 and chunk_size(p) rows, the
\* chunk size the configuration gives under the number of the pass, all of
\* them rows of the candidate set of the one pass p it is tagged with; a
\* scored chunk carries in its shard the tag it was forwarded with; and while
\* a pass is streamed its chunks are appended in the order the stream
\* delivers them: the rows forwarded followed by the rows still to be read
\* stay the same sequence
ChunkingCorrect ==
    /\ []ChunksWellFormed
    /\ [][ (pc \in {"stream", "exec"} /\ pc' \in {"stream", "exec"})
            => Delivered' = Delivered ]_vars

\* a pass named '02' was streamed in chunks of the size configured under
\* '2', the only key of its number; its last chunk was scored in one batch
\* with the first, full chunk of pass '1', and the last chunk of pass '1' was
\* shorter than the chunk size of that pass
ChunksOfTwoPasses ==
    /\ pc = "done"
    /\ Len(forwarded) = 5
    /\ forwarded[3].pass_name = <<0, 2>>
    /\ <<0, 2>> \notin DOMAIN config.chunk_sizes
    /\ forwarded[4].pass_name = <<1>>
    /\ Len(forwarded[4].candidates) = chunk_size(<<1>>)
    /\ Len(forwarded[4].candidates) > 1
    /\ forwarded[5].pass_name = <<1>>
    /\ Len(forwarded[5].candidates) < chunk_size(<<1>>)
    /\ \E n \in DOMAIN shards :
         {forwarded[3], forwarded[4]} \subseteq Range(Unweighted(shards[n]))

\* a batch executes while chunks of the same candidate set wait to be read
BatchExecuting ==
    /\ pc = "exec"
    /\ stream # <<>>
    /\ Len(in_flight) = TwoW

\* the candidate table or file of the pass exists
table_exists(pass_name) == \E t \in tables : t.kind = "p" /\ t.key = pass_name

\* the n-th numbered pass has a candidate set: it exists, or it was found
\* when the pass was looked up
HasCandidateSet(n) ==
    (\E o \in opened : o.key = passes[n]) \/ table_exists(passes[n])

\* the state of the n-th numbered pass
PassState(n) ==
    IF n > pass_pos THEN "PENDING"
    ELSE IF n < pass_pos THEN (IF HasCandidateSet(n) THEN "EXHAUSTED" ELSE "SKIPPED")
    ELSE IF pc = "block" THEN "GENERATING"
    ELSE IF pc \in {"lookup", "stream", "exec"} THEN "STREAMING"
    ELSE IF pc = "failed" THEN "FAILED"
    ELSE "PENDING"

Transitions ==
    { <<"PENDING", "GENERATING">>, <<"GENERATING", "STREAMING">>,
      <<"STREAMING", "EXHAUSTED">>, <<"GENERATING", "SKIPPED">>,
      <<"STREAMING", "SKIPPED">> }
    \cup { <<q, q>> : q \in {"PENDING", "GENERATING", "STREAMING", "EXHAUSTED", "SKIPPED"} }

\* C17: a numbered pass only moves PENDING -> GENERATING -> STREAMING ->
\* EXHAUSTED, GENERATING -> SKIPPED or STREAMING -> SKIPPED; a pass without
\* a candidate set is skipped at the streaming step and does not fail the
\* run (a worker failure, which aborts the run, is set apart)
PassStateMachine ==
    [][ error' # "WorkerError"
        => \A n \in 1..Len(passes') : <<PassState(n), PassState(n)'>> \in Transitions ]_vars

\* the pass being looked up or streamed has an empty candidate set
EmptyPass ==
    /\ pc \in {"lookup", "stream"}
    /\ \E j \in DOMAIN produced :
         /\ produced[j].kind = "p" /\ produced[j].key = passes[pass_pos]
         /\ produced[j].rows = {}

\* C18: a pass that yields no pair has an empty candidate set, has committed
\* its predicate to the exclusion state, forwards no chunk and does not fail
\* the run, which goes on with the next pass
EmptyResultNotError ==
    /\ []((EmptyPass /\ pc = "lookup") =>
            /\ HasCandidateSet(pass_pos)
            /\ LET g == produced[Len(produced)]
               IN IF config.conn
                  THEN past_join_cond_str.conds[Len(past_join_cond_str.conds)]
                         = get_pass_join_cond(g.a, g.b)
                  ELSE /\ past_join_cond_str.a[Len(past_join_cond_str.a)] = g.a
                       /\ past_join_cond_str.b[Len(past_join_cond_str.b)] = g.b)
    /\ [][ EmptyPass => /\ forwarded' = forwarded
                        /\ all_cands' = all_cands
                        /\ pc' \in {"stream", "block", "end"} ]_vars

\* a pass over records without any usable key was generated empty and a
\* later pass of the run was generated with pairs
EmptyThenPairs ==
    \E j \in DOMAIN produced, k \in DOMAIN produced :
        /\ j < k
        /\ produced[j].kind = "p" /\ produced[j].rows = {}
        /\ \A i \in DOMAIN config.df_a : ~Usable(config.df_a[i].col[produced[j].a[1]])
        /\ produced[k].rows # {}

\* the pairs an inverted pass on the variables v1..vn is to capture:
\* a.v_i = b.v_(n+1-i), non-empty, for every i
InvertedPairs(blocking_vars) ==
    LET n == Len(blocking_vars)
    IN { Row(config.df_a[p[1]], TableB[p[2]]) : p \in
           { q \in PairSpace :
               \/ \A i \in 1..n :
                    /\ Usable(config.df_a[q[1]].col[config.vars_a[blocking_vars[i]]])
                    /\ config.df_a[q[1]].col[config.vars_a[blocking_vars[i]]]
                         = TableB[q[2]].col[VarsB[blocking_vars[n + 1 - i]]]
               \/ /\ Dedup
                  /\ \A i \in 1..n :
                    /\ Usable(config.df_a[q[2]].col[config.vars_a[blocking_vars[i]]])
                    /\ config.df_a[q[2]].col[config.vars_a[blocking_vars[i]]]
                         = TableB[q[1]].col[VarsB[blocking_vars[n + 1 - i]]] } }

\* C19: an inverted pass, generated first in the run, captures exactly the
\* pairs with a.v_i = b.v_(n+1-i), and the tuple it records in the exclusion
\* state for side B is the reversed one
InversionReversesB ==
    (/\ produced # <<>>
     /\ produced[1].kind = "p"
     /\ \E k \in DOMAIN config.blocks_by_pass[produced[1].key] :
            IsInv(config.blocks_by_pass[produced[1].key][k]))
    => LET tuple == config.blocks_by_pass[produced[1].key]
           blocking_vars == [k \in DOMAIN tuple |-> StripInv(tuple[k])]
       IN /\ PairSet(produced[1].rows) = PairSet(InvertedPairs(blocking_vars))
          /\ produced[1].b = Reverse(PassBlocks(blocking_vars, VarsB))

\* C20: with a non-empty list of ground-truth identifiers, once the
\* pre-match step is over one pass per identifier has generated its
\* candidates, in list order, before any numbered pass, and the first
\* numbered pass is handed the predicates of all of them
GroundTruthFirst ==
    (config.ground_truth_ids # <<>> /\ pc # "prematch")
    => /\ Len(produced) >= Len(config.ground_truth_ids)
       /\ \A i \in DOMAIN config.ground_truth_ids :
            /\ produced[i].kind = "gid"
            /\ produced[i].gid = config.ground_truth_ids[i]
       /\ (pc = "block" /\ pass_pos = 1) =>
            \A i \in DOMAIN config.ground_truth_ids :
                past_join_cond_str.conds[i] = get_pass_join_cond(produced[i].a, produced[i].b)

====
